---- MODULE Spec2Model ----
(***************************************************************************)
(* Session manager (src/session-manager/main.py): an OpenID 2.0 relying    *)
(* party behind an nginx auth_request.  Every HTTP request is one atomic   *)
(* step: the handlers contain no await besides the call of the (blocking)  *)
(* OpenID library.  request.session is Starlette's SessionMiddleware       *)
(* session: the whole dictionary travels in a signed cookie held by the    *)
(* client; the server keeps no copy of it.                                 *)
(*                                                                         *)
(* Spec is the service with a client that may keep and present again an    *)
(* earlier cookie value.  SpecRecorded is the service with a client that   *)
(* always presents its current cookie, with the query parameters of each   *)
(* callback recorded, for the properties about repeated callbacks.         *)
(***************************************************************************)
EXTENDS Integers, FiniteSets, Sequences, TLC

\* ---------------------------------------------------------------- bounds
MaxSessionIds == 2      \* secrets.token_urlsafe values handed out
MaxNonce == 2           \* response nonces the provider has issued

\* ------------------------------------------------------------ configuration
SSO_TEAM == "canonical-webmonkeys"
OtherTeam == "other-team"
Teams == {SSO_TEAM, OtherTeam}

Browsers == {"b1"}

None == "None"
Identity == "https://login.ubuntu.com/+id/alice"
Email == "a@x.com"
ExternalUrl == "https://evil.example/"
NextValues == {"/", "/dashboard"}              \* values of the query parameter next
NextUrlValues == {None, "", ExternalUrl}       \* values of the query parameter next_url

\* ------------------------------------------------ Python dict as a function
EmptyDict == [k \in {} |-> None]
Get(d, k, default) == IF k \in DOMAIN d THEN d[k] ELSE default
Put(d, k, v) == [x \in (DOMAIN d) \cup {k} |-> IF x = k THEN v ELSE d[x]]
Pop(d, k) == [x \in (DOMAIN d) \ {k} |-> d[x]]

\* Python's  a or b  on strings: None and "" are falsy
PyOr(a, b) == IF a \in {None, ""} THEN b ELSE a

\* -------------------------------------------------- OpenID library objects
SUCCESS == "success"
CANCEL == "cancel"
FAILURE == "failure"
SETUP_NEEDED == "setup_needed"
RAISED == "raised"      \* complete() or an extension parser raised

TokenKey == "_openid_consumer_last_token"

\* TeamsResponse.fromSuccessResponse: None (no team extension data), or an
\* object whose is_member lists the teams the provider asserted
NoTeams == [present |-> FALSE, is_member |-> {}]
TeamsResponses == {NoTeams} \cup {[present |-> TRUE, is_member |-> S] : S \in {{}, {SSO_TEAM}, {OtherTeam}}}

\* SRegResponse.fromSuccessResponse: None, or an object with an email
SRegResponses == {[present |-> FALSE, email |-> None], [present |-> TRUE, email |-> Email]}

\* The extension data of a positive assertion: the provider's usual answer
\* (an email and a team claim), or an answer in which one of the two
\* extensions deviates from it
NormalSReg == [present |-> TRUE, email |-> Email]
NormalTeams == [present |-> TRUE, is_member |-> {SSO_TEAM}]
Extensions ==
    {<<s, t>> \in SRegResponses \X TeamsResponses : s = NormalSReg \/ t = NormalTeams}

\* The query parameters of one callback request.  mode is openid.mode;
\* valid says whether the signature of the assertion verifies (a function of
\* the signed message); nonce is openid.response_nonce.
NoAssertion == [mode |-> "none", valid |-> FALSE, nonce |-> 0, sreg |-> [present |-> FALSE, email |-> None], teams |-> NoTeams]
Assertions ==
    {[mode |-> "id_res", valid |-> TRUE, nonce |-> n, sreg |-> e[1], teams |-> e[2]] :
        n \in 1..MaxNonce, e \in Extensions}
    \cup {[mode |-> "id_res", valid |-> FALSE, nonce |-> 1, sreg |-> NormalSReg, teams |-> NormalTeams]}
    \cup {[NoAssertion EXCEPT !.mode = m] : m \in {"cancel", "error", "setup_needed", "malformed"}}

VARIABLES
    cookie,             \* cookie[b]: the request.session dict in b's session cookie
    kept,               \* kept[b]: a cookie value the client copied earlier
    openid_sessions,    \* session id -> keys of the OpenID consumer session
    nonces,             \* openid_store: response nonces already accepted
    nextId,             \* next value secrets.token_urlsafe returns
    last,               \* the last request and its response
    succeeded,          \* history: some callback of b completed with SUCCESS
    logged_out,         \* history: b logged out and no callback succeeded since
    params,             \* history: query parameters of b's latest callback
    replayed,           \* history: the latest callback repeated those parameters
    flow_dest           \* history: nonce -> destination of the login it answers

\* build manager (src/build-manager/main.py)
VARIABLES
    scheduler,          \* the global scheduler: None or an AsyncIOScheduler
    started,            \* number of AsyncIOScheduler objects started and not shut down
    rebuild,            \* task -> position of its rebuild coroutine
    commands,           \* task -> commands it has run, with their exit codes
    reply               \* the last reply of the build manager

build == <<scheduler, started, rebuild, commands, reply>>
web == <<cookie, kept, openid_sessions, nonces, nextId, last, succeeded, logged_out, params, replayed, flow_dest>>

vars == <<cookie, kept, openid_sessions, nonces, nextId, last, succeeded, logged_out, params, replayed, flow_dest, build>>

\* ---------------------------------------------- build manager: the objects
REBUILDABLE_SERVICES == <<"maas-frontend", "app2-frontend">>
Tasks == {"scheduled", "requested"}     \* the cron job, a request's background tasks

\* the global scheduler: None, or an AsyncIOScheduler with its jobs
NoScheduler == [none |-> TRUE]
AsyncIOScheduler(running, jobs) == [none |-> FALSE, running |-> running, jobs |-> jobs]

\* a coroutine that is not running; queue holds the services still to rebuild
Idle == [pc |-> "idle", queue |-> <<>>]
BuildReply(op, code, status) == [op |-> op, code |-> code, status |-> status]

NoHeaders == EmptyDict
NoDest == "-"
Response(op, b, code, location, headers, status, a) ==
    [op |-> op, b |-> b, code |-> code, location |-> location,
     headers |-> headers, status |-> status, a |-> a]
Plain(op, b, code, location) ==
    Response(op, b, code, location, NoHeaders, "-", NoAssertion)

Init ==
    /\ cookie = [b \in Browsers |-> EmptyDict]
    /\ kept = [b \in Browsers |-> EmptyDict]
    /\ openid_sessions = EmptyDict
    /\ nonces = {}
    /\ nextId = 1
    /\ last = Plain("init", "b1", 0, "")
    /\ succeeded = [b \in Browsers |-> FALSE]
    /\ logged_out = [b \in Browsers |-> FALSE]
    /\ params = [b \in Browsers |-> NoAssertion]
    /\ replayed = FALSE
    /\ flow_dest = [n \in 1..MaxNonce |-> NoDest]
    /\ scheduler = AsyncIOScheduler(TRUE, {"daily_rebuild"})
    /\ started = 1
    /\ rebuild = [t \in Tasks |-> Idle]
    /\ commands = [t \in Tasks |-> <<>>]
    /\ reply = BuildReply("startup", 0, "")

\* ------------------------------------------------------------- OpenIDAuth
ProviderUrl == "https://login.ubuntu.com/+openid"

\* _get_session_id: get or create the id under which the flow is stored
NeedsSessionId(session) == "openid_session_id" \notin DOMAIN session
_get_session_id(session, fresh) ==
    IF "openid_session_id" \notin DOMAIN session
    THEN Put(session, "openid_session_id", fresh)
    ELSE session

\* _get_openid_session: the entry of openid_sessions, created empty if missing
_get_openid_session(store, session_id) ==
    IF session_id \notin DOMAIN store THEN Put(store, session_id, {}) ELSE store

\* a consumer built on a throwaway dict leaves no token in openid_sessions
begin_ThrowawaySession(store, session_id) == store

\* Consumer.begin: discovery, then the endpoint is stored under the token key
begin(store, session_id) ==
    [store EXCEPT ![session_id] = @ \cup {TokenKey}]

\* a consumer whose store does not outlive the request remembers no nonce
complete_FreshStore(a, used) ==
    CASE a.mode = "cancel" -> CANCEL
      [] a.mode = "setup_needed" -> SETUP_NEEDED
      [] a.mode = "malformed" -> RAISED
      [] a.mode = "id_res" -> IF a.valid THEN SUCCESS ELSE FAILURE
      [] OTHER -> FAILURE

\* Consumer.complete: the status of the response.  A positive assertion is
\* accepted when its signature verifies and its nonce was not used before.
complete(a, used) ==
    CASE a.mode = "cancel" -> CANCEL
      [] a.mode = "setup_needed" -> SETUP_NEEDED
      [] a.mode = "malformed" -> RAISED
      [] a.mode = "id_res" ->
            IF a.valid /\ a.nonce \notin used THEN SUCCESS ELSE FAILURE
      [] OTHER -> FAILURE

\* Consumer.complete drops the token key of the flow once it has a response
dropToken(store, session_id, status) ==
    IF status = RAISED THEN store
    ELSE [store EXCEPT ![session_id] = @ \ {TokenKey}]

TeamDenied_EmptyOnly(teams_response) ==
    teams_response.present /\ teams_response.is_member = {}

\* the team check of handle_callback on a SUCCESS response
TeamDenied(teams_response) ==
    teams_response.present /\ SSO_TEAM \notin teams_response.is_member

\* a record that leaves out the fields the provider did not send
UserInfo_OmitsMissing(a) ==
    [k \in {"identity_url"} \cup (IF a.sreg.present THEN {"email"} ELSE {})
                            \cup (IF a.teams.present THEN {"teams"} ELSE {}) |->
        CASE k = "identity_url" -> Identity
          [] k = "email" -> a.sreg.email
          [] OTHER -> a.teams.is_member]

\* the user info handle_callback returns
UserInfo(a) ==
    [identity_url |-> Identity,
     email |-> IF a.sreg.present THEN a.sreg.email ELSE None,
     teams |-> IF a.teams.present THEN a.teams.is_member ELSE {}]

handle_callback_FailureOnly(a, used) ==
    LET status == complete(a, used) IN
    CASE status = FAILURE -> [code |-> 403, status |-> status]
      [] status = RAISED -> [code |-> 400, status |-> status]
      [] OTHER ->
            IF TeamDenied(a.teams)
            THEN [code |-> 403, status |-> status]
            ELSE [code |-> 0, status |-> status]

\* handle_callback: code 0 stands for a normal return of user_info,
\* any other code for the HTTPException raised
handle_callback(a, used) ==
    LET status == complete(a, used) IN
    CASE status = SUCCESS ->
            IF TeamDenied(a.teams)
            THEN [code |-> 403, status |-> status]
            ELSE [code |-> 0, status |-> status]
      [] status = CANCEL -> [code |-> 400, status |-> status]
      [] status = FAILURE -> [code |-> 403, status |-> status]
      [] OTHER -> [code |-> 400, status |-> status]

\* ------------------------------------------------------------- the routes
LoggedIn_WrongKey(session) == "user_info" \in DOMAIN session

\* login: the check "already logged in"
LoggedIn(session) == "user" \in DOMAIN session

\* GET /login
login_request(b) ==
    \E next \in NextValues, next_url \in NextUrlValues, discovered \in BOOLEAN :
        LET session == cookie[b]
            redirect_after_login == PyOr(next_url, next)
        IN
        IF LoggedIn(session)
        THEN /\ last' = Plain("login", b, 307, redirect_after_login)
             /\ UNCHANGED <<cookie, kept, openid_sessions, nonces, nextId>>
             /\ UNCHANGED <<succeeded, logged_out, params, replayed, build>>
        ELSE LET s1 == Put(session, "next_url", redirect_after_login)
                 s2 == _get_session_id(s1, nextId)
                 sid == s2["openid_session_id"]
                 store1 == _get_openid_session(openid_sessions, sid)
             IN
             /\ NeedsSessionId(s1) => nextId <= MaxSessionIds
             /\ nextId' = IF NeedsSessionId(s1) THEN nextId + 1 ELSE nextId
             /\ cookie' = [cookie EXCEPT ![b] = s2]
             /\ openid_sessions' = IF discovered THEN begin(store1, sid) ELSE store1
             /\ last' = IF discovered
                        THEN Plain("login", b, 307, ProviderUrl)
                        ELSE Plain("login", b, 500, "")
             /\ UNCHANGED <<kept, nonces>>
             /\ UNCHANGED <<succeeded, logged_out, params, replayed, build>>

login(b) ==
    /\ login_request(b)
    /\ UNCHANGED flow_dest

\* the same request, with the assertion that will answer it recorded: the
\* provider answers a redirected login with an assertion under a nonce of
\* its own, or the login is abandoned and never answered
login_flow(b) ==
    /\ login_request(b)
    /\ IF last'.code = 307 /\ last'.location = ProviderUrl
       THEN \/ \E n \in {m \in 1..MaxNonce : flow_dest[m] = NoDest /\ m \notin nonces} :
                    flow_dest' = [flow_dest EXCEPT ![n] = cookie'[b]["next_url"]]
            \/ UNCHANGED flow_dest
       ELSE UNCHANGED flow_dest

\* GET /callback
callback_request(b) ==
    \E a \in Assertions :
        LET session == cookie[b]
            s1 == _get_session_id(session, nextId)
            sid == s1["openid_session_id"]
            store1 == _get_openid_session(openid_sessions, sid)
            r == handle_callback(a, nonces)
            s2 == Put(s1, "user", UserInfo(a))
            next_url == Get(s2, "next_url", "/")
        IN
        /\ NeedsSessionId(session) => nextId <= MaxSessionIds
        /\ nextId' = IF NeedsSessionId(session) THEN nextId + 1 ELSE nextId
        /\ openid_sessions' = dropToken(store1, sid, r.status)
        /\ nonces' = IF r.status = SUCCESS THEN nonces \cup {a.nonce} ELSE nonces
        /\ IF r.code = 0
           THEN /\ cookie' = [cookie EXCEPT ![b] = Pop(s2, "next_url")]
                /\ last' = Response("callback", b, 307, next_url, NoHeaders, r.status, a)
           ELSE /\ cookie' = [cookie EXCEPT ![b] = s1]
                /\ last' = Response("callback", b, r.code, "", NoHeaders, r.status, a)
        /\ succeeded' = [succeeded EXCEPT ![b] = @ \/ r.status = SUCCESS]
        /\ logged_out' = [logged_out EXCEPT ![b] = @ /\ r.code # 0]
        /\ UNCHANGED <<kept, flow_dest, build>>

callback(b) ==
    /\ callback_request(b)
    /\ UNCHANGED <<params, replayed>>

\* the same request, with its query parameters recorded
callback_recorded(b) ==
    /\ callback_request(b)
    /\ params' = [params EXCEPT ![b] = last'.a]
    /\ replayed' = (last'.a = params[b])

logout_PopsUser(b) ==
    /\ cookie' = [cookie EXCEPT ![b] = Pop(@, "user")]
    /\ last' = Plain("logout", b, 307, "/")
    /\ logged_out' = [logged_out EXCEPT ![b] = TRUE]
    /\ UNCHANGED <<kept, openid_sessions, nonces, nextId, succeeded, params, replayed, flow_dest, build>>

\* GET /logout
logout(b) ==
    /\ cookie' = [cookie EXCEPT ![b] = EmptyDict]
    /\ last' = Plain("logout", b, 307, "/")
    /\ logged_out' = [logged_out EXCEPT ![b] = TRUE]
    /\ UNCHANGED <<kept, openid_sessions, nonces, nextId, succeeded, params, replayed, flow_dest, build>>

login_required_Pops(session) ==
    IF "user" \in DOMAIN session
    THEN [code |-> 0, user |-> session["user"], session |-> Pop(session, "user")]
    ELSE [code |-> 401, user |-> EmptyDict, session |-> session]

login_required_StoresNext(session) ==
    IF "user" \in DOMAIN session
    THEN [code |-> 0, user |-> session["user"], session |-> session]
    ELSE [code |-> 401, user |-> EmptyDict, session |-> Put(session, "next_url", "/verify-and-inject")]

\* login_required: the user of the session, or the 401 it raises; session is
\* the request's session as the dependency leaves it
login_required(session) ==
    IF "user" \in DOMAIN session
    THEN [code |-> 0, user |-> session["user"], session |-> session]
    ELSE [code |-> 401, user |-> EmptyDict, session |-> session]

\* a header value must be a string: Response.init_headers encodes each one
Encodable(headers) == \A k \in DOMAIN headers : headers[k] # None

\* the headers verify_and_inject builds for a user
InjectedHeaders(user) ==
    [h \in {"X-User-Email", "X-User-Identity", "X-Authenticated"} |->
        CASE h = "X-User-Email" -> Get(user, "email", "")
          [] h = "X-User-Identity" -> Get(user, "identity_url", "")
          [] OTHER -> "true"]

\* GET /verify-and-inject
verify_and_inject(b) ==
    LET dep == login_required(cookie[b])
        headers == InjectedHeaders(dep.user)
    IN
    /\ cookie' = [cookie EXCEPT ![b] = dep.session]
    /\ last' = IF dep.code # 0
               THEN Plain("verify_and_inject", b, dep.code, "")
               ELSE IF Encodable(headers)
                    THEN Response("verify_and_inject", b, 200, "", headers, "-", NoAssertion)
                    ELSE Plain("verify_and_inject", b, 500, "")
    /\ UNCHANGED <<kept, openid_sessions, nonces, nextId, succeeded, logged_out, params, replayed, flow_dest, build>>

\* GET /user
get_user(b) ==
    LET dep == login_required(cookie[b]) IN
    /\ cookie' = [cookie EXCEPT ![b] = dep.session]
    /\ last' = Plain("get_user", b, IF dep.code # 0 THEN dep.code ELSE 200, "")
    /\ UNCHANGED <<kept, openid_sessions, nonces, nextId, succeeded, logged_out, params, replayed, flow_dest, build>>

\* GET /protected
protected_route(b) ==
    LET dep == login_required(cookie[b]) IN
    /\ cookie' = [cookie EXCEPT ![b] = dep.session]
    /\ last' = Plain("protected_route", b, IF dep.code # 0 THEN dep.code ELSE 200, "")
    /\ UNCHANGED <<kept, openid_sessions, nonces, nextId, succeeded, logged_out, params, replayed, flow_dest, build>>

\* GET /health
health(b) ==
    /\ last' = Plain("health", b, 200, "")
    /\ UNCHANGED <<cookie, kept, openid_sessions, nonces, nextId, succeeded, logged_out, params, replayed, flow_dest, build>>

\* ------------------------------------------------------------- the client
\* The session cookie is data in the client's hands: it can copy the value
\* it holds and present that copy again later.
KeepCookie(b) ==
    /\ kept[b] # cookie[b]
    /\ kept' = [kept EXCEPT ![b] = cookie[b]]
    /\ last' = Plain("client", b, 0, "")
    /\ UNCHANGED <<cookie, openid_sessions, nonces, nextId, succeeded, logged_out, params, replayed, flow_dest, build>>

PresentKept(b) ==
    /\ kept[b] # cookie[b]
    /\ cookie' = [cookie EXCEPT ![b] = kept[b]]
    /\ last' = Plain("client", b, 0, "")
    /\ UNCHANGED <<kept, openid_sessions, nonces, nextId, succeeded, logged_out, params, replayed, flow_dest, build>>

Next ==
    \E b \in Browsers :
        \/ login(b)
        \/ callback(b)
        \/ logout(b)
        \/ verify_and_inject(b)
        \/ get_user(b)
        \/ protected_route(b)
        \/ health(b)
        \/ KeepCookie(b)
        \/ PresentKept(b)

Spec == Init /\ [][Next]_vars

\* The requests of a browser that always presents its current cookie, with
\* the parameters of each callback recorded.
NextRecorded ==
    \E b \in Browsers :
        \/ login(b)
        \/ callback_recorded(b)
        \/ logout(b)
        \/ verify_and_inject(b)
        \/ get_user(b)
        \/ protected_route(b)
        \/ health(b)

SpecRecorded == Init /\ [][NextRecorded]_vars

\* The requests of a browser that always presents its current cookie, with
\* the flow each assertion belongs to recorded.
NextFlows ==
    \E b \in Browsers :
        \/ login_flow(b)
        \/ callback(b)
        \/ logout(b)
        \/ verify_and_inject(b)
        \/ get_user(b)
        \/ protected_route(b)
        \/ health(b)

SpecFlows == Init /\ [][NextFlows]_vars

\* The service as long as requests keep arriving.
SpecFair == Init /\ [][Next]_vars /\ WF_vars(Next)

\* ---------------------------------------------------------- build manager
\* exit codes of a docker command that ran
ExitCodes == {0, 2}

\* run_command: the exit code of the process, or 1 when starting or awaiting
\* it raised
run_command(raised, exit) == IF raised THEN 1 ELSE exit

AfterCommand_IgnoresBuild(pc, returncode) ==
    CASE pc = "build" -> "restart"
      [] pc = "restart" -> IF returncode # 0 THEN "end" ELSE "prune"
      [] OTHER -> "end"

\* background_rebuild: what follows a command that returned returncode
AfterCommand(pc, returncode) ==
    CASE pc = "build" -> IF returncode # 0 THEN "end" ELSE "restart"
      [] pc = "restart" -> IF returncode # 0 THEN "end" ELSE "prune"
      [] OTHER -> "end"

\* one await of run_command in background_rebuild, for the service at the
\* head of the task's queue; when the rebuild ends, the next service starts
background_rebuild(t) ==
    \E raised \in BOOLEAN, exit \in ExitCodes :
        LET pc == rebuild[t].pc
            service_name == Head(rebuild[t].queue)
            returncode == run_command(raised, exit)
            after == AfterCommand(pc, returncode)
            rest == Tail(rebuild[t].queue)
        IN
        /\ rebuild[t].pc # "idle"
        /\ commands' = [commands EXCEPT ![t] =
                Append(@, [cmd |-> pc, service |-> service_name, raised |-> raised, code |-> returncode])]
        /\ rebuild' = [rebuild EXCEPT ![t] =
                IF after # "end" THEN [pc |-> after, queue |-> rebuild[t].queue]
                ELSE IF rest = <<>> THEN Idle
                ELSE [pc |-> "build", queue |-> rest]]
        /\ reply' = BuildReply("background_rebuild", 0, t)
        /\ UNCHANGED <<scheduler, started, web>>

\* the cron trigger runs scheduled_rebuild_all, unless the job still runs
scheduled_rebuild_all ==
    /\ ~scheduler.none
    /\ scheduler.running
    /\ "daily_rebuild" \in scheduler.jobs
    /\ rebuild["scheduled"] = Idle
    /\ rebuild' = [rebuild EXCEPT !["scheduled"] = [pc |-> "build", queue |-> REBUILDABLE_SERVICES]]
    /\ commands' = [commands EXCEPT !["scheduled"] = <<>>]
    /\ reply' = BuildReply("scheduled_rebuild_all", 0, "")
    /\ UNCHANGED <<scheduler, started, web>>

\* POST /rebuild/{service}; the background task of one request at a time
rebuild_service ==
    \E service \in {REBUILDABLE_SERVICES[i] : i \in DOMAIN REBUILDABLE_SERVICES} \cup {"nginx"} :
        IF service \notin {REBUILDABLE_SERVICES[i] : i \in DOMAIN REBUILDABLE_SERVICES}
        THEN /\ reply' = BuildReply("rebuild_service", 400, "")
             /\ UNCHANGED <<scheduler, started, rebuild, commands, web>>
        ELSE /\ rebuild["requested"] = Idle
             /\ rebuild' = [rebuild EXCEPT !["requested"] = [pc |-> "build", queue |-> <<service>>]]
             /\ commands' = [commands EXCEPT !["requested"] = <<>>]
             /\ reply' = BuildReply("rebuild_service", 200, "initiated")
             /\ UNCHANGED <<scheduler, started, web>>

\* POST /rebuild-all: the background tasks of a response run one after another
rebuild_all_services ==
    /\ rebuild["requested"] = Idle
    /\ rebuild' = [rebuild EXCEPT !["requested"] = [pc |-> "build", queue |-> REBUILDABLE_SERVICES]]
    /\ commands' = [commands EXCEPT !["requested"] = <<>>]
    /\ reply' = BuildReply("rebuild_all_services", 200, "initiated")
    /\ UNCHANGED <<scheduler, started, web>>

\* scheduler and scheduler.running
Running(sch) == ~sch.none /\ sch.running

\* setup_scheduler: creates, fills and starts a scheduler if there is none
setup_scheduler(sch, n) ==
    IF sch.none
    THEN [scheduler |-> AsyncIOScheduler(TRUE, {"daily_rebuild"}), started |-> n + 1]
    ELSE [scheduler |-> sch, started |-> n]

\* GET /scheduler/status
get_scheduler_status ==
    /\ reply' = BuildReply("get_scheduler_status", 200,
                    IF ~Running(scheduler) THEN "stopped" ELSE "running")
    /\ UNCHANGED <<scheduler, started, rebuild, commands, web>>

\* POST /scheduler/start
start_scheduler ==
    IF Running(scheduler)
    THEN /\ reply' = BuildReply("start_scheduler", 200, "already_running")
         /\ UNCHANGED <<scheduler, started, rebuild, commands, web>>
    ELSE LET setup == setup_scheduler(scheduler, started) IN
         /\ scheduler' = setup.scheduler
         /\ started' = setup.started
         /\ reply' = BuildReply("start_scheduler", 200, "started")
         /\ UNCHANGED <<rebuild, commands, web>>

stop_scheduler_KeepsObject ==
    IF ~Running(scheduler)
    THEN /\ reply' = BuildReply("stop_scheduler", 200, "already_stopped")
         /\ UNCHANGED <<scheduler, started, rebuild, commands, web>>
    ELSE /\ started' = started - 1
         /\ scheduler' = AsyncIOScheduler(FALSE, scheduler.jobs)
         /\ reply' = BuildReply("stop_scheduler", 200, "stopped")
         /\ UNCHANGED <<rebuild, commands, web>>

\* POST /scheduler/stop
stop_scheduler ==
    IF ~Running(scheduler)
    THEN /\ reply' = BuildReply("stop_scheduler", 200, "already_stopped")
         /\ UNCHANGED <<scheduler, started, rebuild, commands, web>>
    ELSE /\ started' = started - 1
         /\ scheduler' = NoScheduler
         /\ reply' = BuildReply("stop_scheduler", 200, "stopped")
         /\ UNCHANGED <<rebuild, commands, web>>

NextBuild ==
    \/ \E t \in Tasks : background_rebuild(t)
    \/ scheduled_rebuild_all
    \/ rebuild_service
    \/ rebuild_all_services
    \/ get_scheduler_status
    \/ start_scheduler
    \/ stop_scheduler

SpecBuild == Init /\ [][NextBuild]_vars

\* ------------------------------------------------------------- properties
HasUser(session) == "user" \in DOMAIN session
UserPart(session) == [k \in (DOMAIN session) \cap {"user"} |-> session[k]]

\* C1: a callback whose completion status is not SUCCESS (cancel, failure,
\* another status, an exception) is answered 400 or 403 and leaves the user
\* record of the session as it was; and a session holds a user record only
\* if an earlier callback of that browser completed with status SUCCESS.
C1_NonSuccessRejected ==
    /\ [](\A b \in Browsers : HasUser(cookie[b]) => succeeded[b])
    /\ [][(last'.op = "callback" /\ last'.status # SUCCESS) =>
              /\ last'.code \in {400, 403}
              /\ UserPart(cookie'[last'.b]) = UserPart(cookie[last'.b])]_vars

C1_Witness ==
    /\ last.op = "callback"
    /\ last.status = RAISED
    /\ last.code = 400
    /\ "next_url" \in DOMAIN cookie[last.b]
    /\ ~HasUser(cookie[last.b])

\* C2: every user record stored in a session has the required team
\* SSO_TEAM among its teams.
C2_UserHasRequiredTeam ==
    \A b \in Browsers : HasUser(cookie[b]) => SSO_TEAM \in cookie[b]["user"].teams

\* C3: a callback whose verification succeeds and whose team-membership
\* claim lacks the required team is answered 403 and leaves the user record
\* of the session as it was.
C3_TeamDenied403 ==
    [][(/\ last'.op = "callback"
        /\ last'.status = SUCCESS
        /\ last'.a.teams.present
        /\ SSO_TEAM \notin last'.a.teams.is_member) =>
            /\ last'.code = 403
            /\ UserPart(cookie'[last'.b]) = UserPart(cookie[last'.b])]_vars

C3_Witness ==
    /\ last.op = "callback"
    /\ last.status = SUCCESS
    /\ last.a.teams = [present |-> TRUE, is_member |-> {OtherTeam}]
    /\ last.code = 403
    /\ ~HasUser(cookie[last.b])

\* a flow started by login and not yet completed: the stored next_url, or the
\* consumer's token under the session's openid_session_id
HasPendingFlow(session, store) ==
    \/ "next_url" \in DOMAIN session
    \/ /\ "openid_session_id" \in DOMAIN session
       /\ session["openid_session_id"] \in DOMAIN store
       /\ TokenKey \in store[session["openid_session_id"]]

\* C4: a callback sets the user record only for a browser session that
\* holds a pending flow recorded by a preceding login.
C4_SessionOnlyFromPendingFlow ==
    [][(last'.op = "callback" /\ last'.code = 307) =>
            HasPendingFlow(cookie[last'.b], openid_sessions)]_vars

\* C5: submitting again the query parameters of the callback the browser
\* submitted before leaves the user record of the session as it was: it
\* neither creates a session nor replaces the record.
C5_ReplayChangesNothing ==
    [][(last'.op = "callback" /\ last'.a = params[last'.b]) =>
            UserPart(cookie'[last'.b]) = UserPart(cookie[last'.b])]_vars

C5_Witness ==
    /\ last.op = "callback"
    /\ replayed
    /\ last.a.mode = "id_res" /\ last.a.valid /\ ~TeamDenied(last.a.teams)
    /\ last.code = 403
    /\ logged_out[last.b]
    /\ ~HasUser(cookie[last.b])

\* C6: after any callback, accepted or rejected, the stored next_url is no
\* longer present in the browser session.
C6_CallbackDiscardsFlow ==
    last.op = "callback" => "next_url" \notin DOMAIN cookie[last.b]

\* C7: verify-and-inject answers 401 without identity headers exactly when
\* the session has no user record, and otherwise 200 with X-Authenticated
\* true and X-User-Email, X-User-Identity equal to the stored email and
\* identity_url.
C7_VerifyMatchesSession ==
    last.op = "verify_and_inject" =>
        IF ~HasUser(cookie[last.b])
        THEN last.code = 401 /\ last.headers = NoHeaders
        ELSE /\ last.code = 200
             /\ last.headers = [h \in {"X-User-Email", "X-User-Identity", "X-Authenticated"} |->
                    CASE h = "X-User-Email" -> cookie[last.b]["user"].email
                      [] h = "X-User-Identity" -> cookie[last.b]["user"].identity_url
                      [] OTHER -> "true"]

\* C8: after a logout, and until a callback succeeds again, every
\* verify-and-inject or /user request of that browser is answered 401,
\* also when the client presents the cookie value it held before the logout.
\* Stated for sessions whose user record, if any, has an email, so that a
\* violation is a request served as authenticated and not the failure of C9.
C8_LogoutRevokesSession ==
    (/\ last.op \in {"verify_and_inject", "get_user"}
     /\ logged_out[last.b]
     /\ HasUser(cookie[last.b]) => cookie[last.b]["user"].email # None)
        => last.code = 401

\* C9: verify-and-inject always resolves to 200 or 401.
C9_VerifyNeverFails ==
    last.op = "verify_and_inject" => last.code \in {200, 401}

\* C10: verify-and-inject leaves the browser session and the shared
\* openid_sessions store unchanged, whether it answers 200 or 401.
C10_VerifySideEffectFree ==
    [][last'.op = "verify_and_inject" =>
            /\ cookie' = cookie
            /\ openid_sessions' = openid_sessions]_vars

C10_Witness ==
    /\ last.op = "verify_and_inject"
    /\ last.code = 401
    /\ "next_url" \in DOMAIN cookie[last.b]
    /\ "openid_session_id" \in DOMAIN cookie[last.b]

\* the same-origin relative paths among the destinations a client can name
RelativePaths == {"/", "/dashboard"}

\* C11: every redirect to a post-login destination (the short-circuit of
\* login for a logged-in browser, the redirect after a successful callback)
\* targets a same-origin relative path.
C11_RedirectSameOrigin ==
    (/\ last.op \in {"login", "callback"}
     /\ last.code = 307
     /\ last.location # ProviderUrl) => last.location \in RelativePaths

\* C13: a login of a browser whose session holds a user record answers with
\* a redirect to the requested destination, not to the provider, and leaves
\* the session (next_url, openid_session_id) and openid_sessions unchanged.
C13_LoginShortCircuit ==
    [][(last'.op = "login" /\ HasUser(cookie[last'.b])) =>
            /\ last'.code = 307
            /\ last'.location # ProviderUrl
            /\ last'.location \in {PyOr(u, n) : u \in NextUrlValues, n \in NextValues}
            /\ cookie' = cookie
            /\ openid_sessions' = openid_sessions
            /\ nextId' = nextId]_vars

C13_Witness ==
    /\ last.op = "login"
    /\ last.code = 307
    /\ last.location = "/dashboard"
    /\ HasUser(cookie[last.b])
    /\ "next_url" \notin DOMAIN cookie[last.b]

\* C14: a login of an anonymous browser records the flow under the
\* openid_session_id held in the browser's session (the next_url in the
\* session, the consumer state in openid_sessions) and creates no user
\* record, whether it ends in the redirect to the provider or in an error.
C14_LoginRecordsFlowOnly ==
    [][(last'.op = "login" /\ ~HasUser(cookie[last'.b])) =>
            LET session == cookie'[last'.b] IN
            /\ ~HasUser(session)
            /\ last'.code \in {307, 500}
            /\ "next_url" \in DOMAIN session
            /\ "openid_session_id" \in DOMAIN session
            /\ session["openid_session_id"] \in DOMAIN openid_sessions'
            /\ last'.code = 307 =>
                    /\ last'.location = ProviderUrl
                    /\ TokenKey \in openid_sessions'[session["openid_session_id"]]]_vars

C14_Witness ==
    /\ last.op = "login"
    /\ last.code = 500
    /\ cookie[last.b] = [next_url |-> ExternalUrl, openid_session_id |-> 1]
    /\ openid_sessions[1] = {}

\* C15: login, a rejected callback, verify-and-inject, /user, /protected and
\* /health leave the user record of the session exactly as it was (present
\* with the same value, or absent).
C15_UserRecordFrame ==
    [][(\/ last'.op \in {"login", "verify_and_inject", "get_user", "protected_route", "health"}
        \/ (last'.op = "callback" /\ last'.code # 307)) =>
            UserPart(cookie'[last'.b]) = UserPart(cookie[last'.b])]_vars

C15_Witness ==
    /\ last.op = "protected_route"
    /\ last.code = 200
    /\ HasUser(cookie[last.b])
    /\ cookie[last.b]["user"].email = None

C18_LogoutToAnonymous ==
    [][/\ last'.op = "logout" => cookie'[last'.b] = EmptyDict
       /\ (/\ logged_out[last'.b] /\ cookie[last'.b] = EmptyDict
           /\ last'.op = "callback" /\ last'.code = 307) => last'.location = "/"
       /\ (/\ logged_out[last'.b] /\ cookie[last'.b] = EmptyDict
           /\ last'.op = "login") =>
                /\ "openid_session_id" \in DOMAIN cookie'[last'.b]
                /\ cookie'[last'.b]["openid_session_id"] \notin DOMAIN openid_sessions]_vars

C18_Witness ==
    /\ last.op = "login"
    /\ logged_out[last.b]
    /\ kept[last.b] = EmptyDict
    /\ "openid_session_id" \in DOMAIN cookie[last.b]
    /\ cookie[last.b]["openid_session_id"] = 2
    /\ 1 \in DOMAIN openid_sessions

\* C12: a successful callback redirects to the destination given to the
\* login that started the flow its assertion answers, also when the browser
\* started another login in between.  Stated for a browser that has not
\* logged out since its last successful callback (the case of C18).
C12_RedirectToOwnFlow ==
    [][(/\ last'.op = "callback"
        /\ last'.code = 307
        /\ ~logged_out[last'.b]
        /\ flow_dest[last'.a.nonce] # NoDest) =>
            last'.location = flow_dest[last'.a.nonce]]_vars

\* C16: every entry added to openid_sessions is eventually removed.
C16_FlowEntriesRemoved ==
    \A i \in 1..MaxSessionIds :
        (i \in DOMAIN openid_sessions) ~> (i \notin DOMAIN openid_sessions)

\* the commands one task has issued so far are in the order the code allows
Gated(log) ==
    \A i \in 1..Len(log) :
        /\ log[i].raised => log[i].code = 1
        /\ log[i].cmd = "restart" =>
              /\ i > 1
              /\ log[i-1].cmd = "build"
              /\ log[i-1].service = log[i].service
              /\ log[i-1].code = 0
        /\ log[i].cmd = "prune" =>
              /\ i > 1
              /\ log[i-1].cmd = "restart"
              /\ log[i-1].service = log[i].service
              /\ log[i-1].code = 0
        /\ (log[i].cmd = "build" /\ i > 1) =>
              /\ log[i-1].cmd = "prune" \/ log[i-1].code # 0
              /\ log[i-1].service # log[i].service
        /\ (i < Len(log) /\ log[i].cmd \in {"build", "restart"} /\ log[i].code # 0) =>
              /\ log[i+1].cmd = "build"
              /\ log[i+1].service # log[i].service

\* C19: in background_rebuild the restart of a service is issued only after
\* its build returned 0, the prune only after the restart returned 0, a failed
\* or crashed command (code 1 on an exception) ends the rebuild, and the next
\* service's rebuild starts only after the previous one has ended.
C19_CommandsGated ==
    \A t \in Tasks : Gated(commands[t])

C19_Witness ==
    /\ Len(commands["scheduled"]) = 4
    /\ commands["scheduled"][1] =
          [cmd |-> "build", service |-> REBUILDABLE_SERVICES[1], raised |-> TRUE, code |-> 1]
    /\ commands["scheduled"][2].cmd = "build"
    /\ commands["scheduled"][2].service = REBUILDABLE_SERVICES[2]
    /\ commands["scheduled"][4].cmd = "prune"
    /\ rebuild["scheduled"] = Idle

\* C20: the scheduler variable is None or one running scheduler whose only
\* job is daily_rebuild; start answers already_running and changes nothing
\* when it runs, else answers started and it runs afterwards; stop answers
\* already_stopped and changes nothing when it does not run, else shuts it
\* down and resets it to None; status reports running exactly when such a
\* scheduler exists.
C20_SingleScheduler ==
    /\ [](/\ scheduler \in {NoScheduler, AsyncIOScheduler(TRUE, {"daily_rebuild"})}
          /\ started = IF scheduler = NoScheduler THEN 0 ELSE 1)
    /\ [][/\ reply'.op = "start_scheduler" =>
                IF Running(scheduler)
                THEN reply'.status = "already_running" /\ UNCHANGED <<scheduler, started>>
                ELSE reply'.status = "started" /\ Running(scheduler')
          /\ reply'.op = "stop_scheduler" =>
                IF ~Running(scheduler)
                THEN reply'.status = "already_stopped" /\ UNCHANGED <<scheduler, started>>
                ELSE reply'.status = "stopped" /\ scheduler' = NoScheduler
          /\ reply'.op = "get_scheduler_status" =>
                (reply'.status = "running" <=> scheduler = AsyncIOScheduler(TRUE, {"daily_rebuild"}))]_vars

C20_Witness ==
    /\ reply.op = "start_scheduler"
    /\ reply.status = "started"
    /\ Running(scheduler)
    /\ started = 1

====
